---- MODULE Spec2Model ----
(***************************************************************************)
(* Model of RealtimeChatSync.                                              *)
(*                                                                         *)
(* Spec: the real-time (WebSocket) part of the server: the process-wide    *)
(* `clients` registry and the connection / message / close handlers that   *)
(* registerRoutes installs on every socket.  Node runs each handler to     *)
(* completion on one thread, so every handler is one action.  The ordered  *)
(* side effects of the handler that ran last are kept in `trace`, each     *)
(* with the registry as it was right after the effect, so that the states  *)
(* inside a handler can be inspected too.                                  *)
(*                                                                         *)
(* SpecConversations, SpecRegister, SpecPolling: the request/response      *)
(* part of the server over MemStorage.  An async handler is one action     *)
(* per stretch between awaits; who may run next is decided by what the     *)
(* await waits for.  SpecPolling adds the browser that polls the messages  *)
(* of its selected conversation.                                           *)
(*                                                                         *)
(* SpecReceipts: GET and POST of a conversation's messages by any user,    *)
(* for the read flags.                                                     *)
(*                                                                         *)
(* SpecClient: the useWebSocket hook of one browser tab.                   *)
(*                                                                         *)
(* SpecSessions: several tabs of one user, each running the hook, against  *)
(* the socket handlers of the server.                                      *)
(***************************************************************************)
EXTENDS Integers, Sequences, FiniteSets, TLC

\* ------------------------------------------------------------------ bounds
NumChannels == 2
NumUsers == 2
NumConvs == 1
\* how many inbound messages the server handles in one run
MaxMessages == 4
\* how many HTTP requests the server receives in one run
MaxRequests == 2
\* how many WebSockets one browser tab creates in one run
MaxSockets == 3
\* how many events are looked at on one client socket
MaxSent == 2

Channels == 1..NumChannels
UserIds == 1..NumUsers
ConvIds == 1..NumConvs
Reqs == 1..MaxRequests

\* `undefined` (and every other falsy value) of a userId / conversationId
None == 0

\* ------------------------------------------------------- inbound payloads
\* What a client can put on the wire.  `raw` says what JSON.parse makes of
\* the text: "garbage" does not parse, "null" parses to null, "object"
\* parses to an object with the fields below.  A typing event may lack its
\* conversationId (None); type "message" stands for every type that is
\* neither init nor typing.
InitPayloads ==
    { [raw |-> "object", type |-> "init", userId |-> u,
       conversationId |-> None, isTyping |-> FALSE] : u \in UserIds \cup {None} }

TypingPayloads ==
    { [raw |-> "object", type |-> "typing", userId |-> None,
       conversationId |-> k, isTyping |-> v] : k \in ConvIds \cup {None}, v \in BOOLEAN }

MalformedPayloads ==
    { [raw |-> r, type |-> "none", userId |-> None,
       conversationId |-> None, isTyping |-> FALSE] : r \in {"garbage", "null"} }
    \cup
    { [raw |-> "object", type |-> t, userId |-> None,
       conversationId |-> None, isTyping |-> FALSE] : t \in {"message"} }

Payloads == InitPayloads \cup TypingPayloads \cup MalformedPayloads

\* JSON.parse(data) followed by the read of message.type: throws for text
\* that is not JSON and for JSON null (null has no property `type`).
ParseThrows(data) == data.raw \in {"garbage", "null"}

\* ------------------------------------------------------------ the JS Map
\* `clients` is a Map<number, Client>: an insertion-ordered list of entries
\* with distinct keys.  An entry is [key, userId, ws, conversationId].
MapHas(m, k) == \E i \in 1..Len(m) : m[i].key = k

MapGet(m, k) == m[CHOOSE i \in 1..Len(m) : m[i].key = k]

\* A delete whose key test is inverted
MapDeleteInverted(m, k) ==
    LET Keep(e) == e.key = k IN SelectSeq(m, Keep)

MapDelete(m, k) ==
    LET Keep(e) == e.key # k IN SelectSeq(m, Keep)

MapSet(m, k, v) ==
    IF MapHas(m, k)
    THEN [i \in 1..Len(m) |-> IF m[i].key = k THEN v ELSE m[i]]
    ELSE Append(m, v)

Client(u, w) == [key |-> u, userId |-> u, ws |-> w, conversationId |-> None]

\* ------------------------------------------------------------------ state
VARIABLES
    clients,      \* the registry
    readyState,   \* per channel: "NONE" (not connected yet), "OPEN", "CLOSING", "CLOSED"
    userId,       \* per channel: the `let userId` of its connection closure
    everInit,     \* per channel: has an init event of this channel been handled
    lastInit,     \* per user: the channel whose init for this user was handled last
    handled,      \* the number of inbound messages handled so far
    last,         \* the event the last handler handled
    pre,          \* clients, readyState and userId as the last handler found them
    trace,        \* the side effects of the last handler, in order
    escaped       \* has an exception left a handler

wsVars == <<clients, readyState, userId, everInit, lastInit, handled, last, pre, trace, escaped>>

\* The request/response side of the server: MemStorage and the HTTP requests
\* the process is serving.
VARIABLES
    users,          \* MemStorage.users, in insertion order
    conversations,  \* MemStorage.conversations, in insertion order
    messages,       \* MemStorage.messages, in insertion order
    reqs,           \* the requests received, in order, and where their handlers stand
    running         \* the request whose handler holds the thread, None when idle

httpVars == <<users, conversations, messages, reqs, running>>

\* The browser of one logged-in user with a conversation selected: the
\* messages query of its ChatArea.
VARIABLES
    query,          \* the GET of the messages query: where it stands, and
                    \* whether a refetch was asked for while it was served
    response,       \* the messages the GET handler read
    fetched         \* the data of the messages query

pollVars == <<query, response, fetched>>

\* The useWebSocket hook of one browser tab.
VARIABLES
    user,           \* useAuth().user: the logged-in user, None when logged out
    socks,          \* the WebSockets the hook created, in order of creation,
                    \* each with the reconnect timer its onclose set
    wsRef,          \* wsRef.current
    timeoutRef      \* reconnectTimeoutRef.current: the socket whose timer it holds

\* Several browser tabs, tab c on channel c, all logged in as the same user:
\* what the useWebSocket hook of each is doing.
VARIABLES
    tabs            \* per opened tab, in order of opening: the state of
                    \* its current WebSocket, whether the init it sent is
                    \* still on its way, the typing event on its way (NoData
                    \* when there is none), whether its reconnect timer is set

browserVars == <<user, socks, wsRef, timeoutRef, tabs>>

vars == <<wsVars, httpVars, pollVars, browserVars>>

\* One side effect of a handler, with the registry right after it
Effect(op, w, k, msg, reg) == [op |-> op, ws |-> w, key |-> k, msg |-> msg, reg |-> reg]

NoMsg == [type |-> "none", userId |-> None, isTyping |-> FALSE]
PingMsg == [type |-> "ping", userId |-> None, isTyping |-> FALSE]
TypingMsg(u, v) == [type |-> "typing", userId |-> u, isTyping |-> v]

Event(ev, c, data) == [ev |-> ev, ch |-> c, data |-> data]

NoData ==
    [raw |-> "none", type |-> "none", userId |-> None,
     conversationId |-> None, isTyping |-> FALSE]

Snapshot == [clients |-> clients, readyState |-> readyState, userId |-> userId]

\* The user whose logged-in browser opens channel c: the session that the
\* upgrade request `req` of the connection carries.
SessionUser(c) == ((c - 1) % NumUsers) + 1

\* ws.close() on a socket: an open socket starts closing, its 'close' event
\* comes later; on a closing or closed socket nothing changes.
WsClose(rs, w) ==
    IF rs[w] = "OPEN" THEN [rs EXCEPT ![w] = "CLOSING"] ELSE rs

WsInit ==
    /\ clients = << >>
    /\ readyState = [c \in Channels |-> "NONE"]
    /\ userId = [c \in Channels |-> None]
    /\ everInit = [c \in Channels |-> FALSE]
    /\ lastInit = [u \in UserIds |-> None]
    /\ handled = 0
    /\ last = Event("start", None, NoData)
    /\ pre = Snapshot
    /\ trace = << >>
    /\ escaped = FALSE

\* ------------------------------------------------------------ MemStorage
\* Users carry the usernames 1..NumUsers; None is a username nobody has.
Usernames == 1..NumUsers

NoUser == [id |-> None, username |-> None]

\* Array.from(this.users.values()).find(user => user.username === username)
GetUserByUsername(us, name) ==
    IF \E i \in 1..Len(us) : us[i].username = name
    THEN us[CHOOSE i \in 1..Len(us) :
                /\ us[i].username = name
                /\ \A j \in 1..(i - 1) : us[j].username # name]
    ELSE NoUser

\* createUser: id = this.currentUserId++, then users.set(id, user).  Nothing
\* is ever deleted, so the counter is one more than the size of the map.
CreateUser(us, name) == Append(us, [id |-> Len(us) + 1, username |-> name])

\* getConversations: the conversations userId takes part in
GetConversations(cs, u) ==
    LET Mine(conv) == conv.user1Id = u \/ conv.user2Id = u IN SelectSeq(cs, Mine)

NoConversation == [id |-> None, user1Id |-> None, user2Id |-> None]

SamePair(conv, u, o) ==
    \/ conv.user1Id = u /\ conv.user2Id = o
    \/ conv.user1Id = o /\ conv.user2Id = u

\* existingConversations.find(conv => ...) of POST /api/conversations
FindExisting(cs, u, o) ==
    IF \E i \in 1..Len(cs) : SamePair(cs[i], u, o)
    THEN cs[CHOOSE i \in 1..Len(cs) :
                /\ SamePair(cs[i], u, o)
                /\ \A j \in 1..(i - 1) : ~SamePair(cs[j], u, o)]
    ELSE NoConversation

\* createConversation: id = this.currentConversationId++
CreateConversation(cs, u1, u2) ==
    Append(cs, [id |-> Len(cs) + 1, user1Id |-> u1, user2Id |-> u2])

\* A request before its handler has done anything
NoReq ==
    [kind |-> "none", pc |-> "none", user |-> None, name |-> None,
     conv |-> None, content |-> "", other |-> None, found |-> None, status |-> 0, result |-> None,
     created |-> None, hadExisting |-> FALSE, concurrent |-> FALSE]

IdleServer ==
    /\ reqs = << >>
    /\ running = None

HttpInit ==
    /\ users = << >>
    /\ conversations = << >>
    /\ messages = << >>
    /\ IdleServer

\* The messages query before anything is fetched
NoQuery == [pc |-> "idle", stale |-> FALSE]

PollInit ==
    /\ query = NoQuery
    /\ response = << >>
    /\ fetched = << >>

\* A tab whose hook has just run connect(): tabs are numbered in the order
\* in which they are opened
NewTab == [state |-> "CONNECTING", init |-> FALSE, typing |-> NoData, timer |-> FALSE]

\* Nobody is logged in: the hook has created nothing
BrowserInit ==
    /\ user = None
    /\ socks = << >>
    /\ wsRef = None
    /\ timeoutRef = None
    /\ tabs = << >>

Init == WsInit /\ HttpInit /\ PollInit /\ BrowserInit

\* ------------------------------------------------------------- handlers
\* A connection handler that sends no ping
NoGreeting(c, m) == << >>

\* The last statement of the connection handler: one ping on the new socket
Greeting(c, m) == << Effect("send", c, None, PingMsg, m) >>

\* wss.on('connection'): the closure starts with userId undefined, the
\* handlers are installed and one ping is sent.  Channels are numbered in
\* the order in which they connect.
Connection(c) ==
    /\ readyState[c] = "NONE"
    /\ \A d \in Channels : d < c => readyState[d] # "NONE"
    /\ readyState' = [readyState EXCEPT ![c] = "OPEN"]
    /\ userId' = [userId EXCEPT ![c] = None]
    /\ trace' = Greeting(c, clients)
    /\ last' = Event("connection", c, NoData)
    /\ pre' = Snapshot
    /\ UNCHANGED <<clients, everInit, lastInit, handled, escaped>>

\* A userId declared once for all connections instead of once per connection:
\* a handler reads what some connection's init stored.
SharedUserId(uid, c) ==
    IF \E d \in Channels : uid[d] # None
    THEN uid[CHOOSE d \in Channels : uid[d] # None]
    ELSE None

\* The userId a handler of connection c reads: the variable is declared
\* inside the connection callback, one per connection.
CapturedUserId(uid, c) == uid[c]

\* case 'init', the eviction: the channel of the entry stored under u is
\* closed, then the entry is deleted.
HasExisting(m, u) == MapHas(m, u)

\* An eviction that forgets existingClient.ws.close()
EvictReadyStateNoClose(rs, m, u) == rs

EvictReadyState(rs, m, u) ==
    IF HasExisting(m, u) THEN WsClose(rs, MapGet(m, u).ws) ELSE rs

\* An eviction that forgets clients.delete(userId)
EvictRegistryKeep(m, u) == m

EvictRegistry(m, u) ==
    IF HasExisting(m, u) THEN MapDelete(m, u) ELSE m

EvictTrace(m, u) ==
    IF HasExisting(m, u)
    THEN << Effect("close", MapGet(m, u).ws, u, NoMsg, m),
            Effect("delete", None, u, NoMsg, EvictRegistry(m, u)) >>
    ELSE << >>

\* case 'init', the registration that follows the eviction
Register(m, u, c) == MapSet(m, u, Client(u, c))

\* An init that rebinds the entry it finds (existingClient.ws = ws) instead
\* of replacing it
HandleInitReuse(c, data) ==
    LET u == data.userId
        rebound == [i \in 1..Len(clients) |->
                      IF clients[i].key = u
                      THEN [clients[i] EXCEPT !.ws = c] ELSE clients[i]]
    IN
    /\ userId' = [userId EXCEPT ![c] = u]
    /\ everInit' = [everInit EXCEPT ![c] = TRUE]
    /\ IF u # None
       THEN /\ readyState' = EvictReadyState(readyState, clients, u)
            /\ clients' = IF MapHas(clients, u) THEN rebound
                                                ELSE Register(clients, u, c)
            /\ lastInit' = [lastInit EXCEPT ![u] = c]
            /\ trace' = << Effect("set", c, u, NoMsg, clients') >>
       ELSE /\ UNCHANGED <<readyState, clients, lastInit>>
            /\ trace' = << >>

HandleInit(c, data) ==
    LET u == data.userId IN
    /\ userId' = [userId EXCEPT ![c] = u]
    /\ everInit' = [everInit EXCEPT ![c] = TRUE]
    /\ IF u # None
       THEN /\ readyState' = EvictReadyState(readyState, clients, u)
            /\ clients' = Register(EvictRegistry(clients, u), u, c)
            /\ lastInit' = [lastInit EXCEPT ![u] = c]
            /\ trace' = EvictTrace(clients, u)
                          \o << Effect("set", c, u, NoMsg, clients') >>
       ELSE /\ UNCHANGED <<readyState, clients, lastInit>>
            /\ trace' = << >>

\* A typing case without its `if (!userId) return`
NoUserIdUnchecked(u) == FALSE

\* case 'typing', `if (!userId) return`
NoUserId(u) == u = None

\* An update that writes the conversation into every entry
SetConversationAll(m, u, k) ==
    [i \in 1..Len(m) |-> [m[i] EXCEPT !.conversationId = k]]

\* case 'typing': the sender's entry, when there is one, takes the
\* conversation of the event
SetConversation(m, u, k) ==
    IF MapHas(m, u)
    THEN [i \in 1..Len(m) |->
            IF m[i].key = u THEN [m[i] EXCEPT !.conversationId = k] ELSE m[i]]
    ELSE m

\* A relay loop without its `client.userId !== userId` test
RecipientsWithSender(m, k, u) ==
    LET Match(e) == e.conversationId = k IN SelectSeq(m, Match)

\* A relay loop over every open socket of the server (wss.clients) instead
\* of the registry
RecipientsBroadcast(m, k, u) ==
    LET all == [i \in 1..NumChannels |->
                  [key |-> None, userId |-> None, ws |-> i, conversationId |-> k]]
        IsOpen(e) == readyState[e.ws] = "OPEN"
    IN SelectSeq(all, IsOpen)

\* A relay loop without its conversationId test
RecipientsAnyConversation(m, k, u) ==
    LET Match(e) == e.userId # u IN SelectSeq(m, Match)

\* case 'typing': the entries the loop over clients.values() sends to
Recipients(m, k, u) ==
    LET Match(e) == e.conversationId = k /\ e.userId # u IN SelectSeq(m, Match)

HandleTyping(c, data) ==
    LET u == CapturedUserId(userId, c)
        k == data.conversationId
        reg == SetConversation(clients, u, k)
        rcp == Recipients(reg, k, u)
    IN
    /\ UNCHANGED <<userId, everInit, lastInit, readyState>>
    /\ IF NoUserId(u)
       THEN /\ UNCHANGED clients
            /\ trace' = << >>
       ELSE /\ clients' = reg
            /\ trace' = (IF MapHas(clients, u)
                          THEN << Effect("assign", None, u, NoMsg, reg) >>
                          ELSE << >>)
                         \o [i \in 1..Len(rcp) |->
                               Effect("send", rcp[i].ws, rcp[i].key,
                                      TypingMsg(u, data.isTyping), reg)]

\* A message handler without try/catch, as in an earlier revision
NoTry == FALSE

\* The body of ws.on('message') is one try block whose catch only logs.
InTry == TRUE

\* ws.on('message'): messages arrive while the socket is open, and also
\* after the server called close() on it until its 'close' event.
OnMessage(c, data) ==
    /\ readyState[c] \in {"OPEN", "CLOSING"}
    /\ handled < MaxMessages
    /\ handled' = handled + 1
    /\ last' = Event("message", c, data)
    /\ pre' = Snapshot
    /\ IF ParseThrows(data)
       THEN /\ escaped' = (escaped \/ ~InTry)
            /\ trace' = << >>
            /\ UNCHANGED <<clients, readyState, userId, everInit, lastInit>>
       ELSE /\ UNCHANGED escaped
            /\ CASE data.type = "init" -> HandleInit(c, data)
                 [] data.type = "typing" -> HandleTyping(c, data)
                 [] OTHER -> /\ trace' = << >>
                             /\ UNCHANGED <<clients, readyState, userId, everInit, lastInit>>

\* ws.on('close'): the socket is closed, by either end
OnClose(c) ==
    LET u == CapturedUserId(userId, c) IN
    /\ readyState[c] \in {"OPEN", "CLOSING"}
    /\ readyState' = [readyState EXCEPT ![c] = "CLOSED"]
    /\ last' = Event("close", c, NoData)
    /\ pre' = Snapshot
    /\ IF u # None
       THEN /\ clients' = MapDelete(clients, u)
            /\ trace' = << Effect("delete", None, u, NoMsg, clients') >>
       ELSE /\ UNCHANGED clients
            /\ trace' = << >>
    /\ UNCHANGED <<userId, everInit, lastInit, handled, escaped>>

Connect ==
    /\ \E c \in Channels : Connection(c)
    /\ UNCHANGED <<httpVars, pollVars, browserVars>>
MessageInit ==
    /\ \E c \in Channels, data \in InitPayloads : OnMessage(c, data)
    /\ UNCHANGED <<httpVars, pollVars, browserVars>>
MessageTyping ==
    /\ \E c \in Channels, data \in TypingPayloads : OnMessage(c, data)
    /\ UNCHANGED <<httpVars, pollVars, browserVars>>
MessageMalformed ==
    /\ \E c \in Channels, data \in MalformedPayloads : OnMessage(c, data)
    /\ UNCHANGED <<httpVars, pollVars, browserVars>>
Close ==
    /\ \E c \in Channels : OnClose(c)
    /\ UNCHANGED <<httpVars, pollVars, browserVars>>

Next == Connect \/ MessageInit \/ MessageTyping \/ MessageMalformed \/ Close

Spec == Init /\ [][Next]_vars

\* ---------------------------------------------------- HTTP: scheduling
\* Node runs one callback at a time.  `running` is the request whose handler
\* holds the thread; a handler that is not running can only be (re)entered
\* while the thread is idle.
MayRun(r) == running \in {None, r}

\* An await on a MemStorage method that yields to the event loop, as an
\* await on real I/O does
AwaitStorageYields(r) == None

\* `await storage.<method>(...)`: every MemStorage method is an async
\* function without an await of its own, so its promise is already resolved
\* and the handler continues in a microtask, before any other callback of
\* the event loop: the request keeps the thread.
AwaitStorage(r) == r

\* Request r arrives.
Arrive(r, kind, u, name, k, content) ==
    /\ r = Len(reqs) + 1
    /\ reqs' = Append(reqs,
                  [NoReq EXCEPT !.kind = kind, !.pc = "pending",
                                !.user = u, !.name = name,
                                !.conv = k, !.content = content])
    /\ UNCHANGED <<users, conversations, messages, running>>

\* res.status(...).json(...) / res.sendStatus(...): the handler is over
Respond(r, status, result) ==
    /\ reqs' = [reqs EXCEPT ![r].pc = "done", ![r].status = status,
                            ![r].result = result]
    /\ running' = None

\* ------------------------------------------- HTTP: POST /api/conversations
\* From the entry of the handler to `await storage.getUserByUsername`
ConversationStart(r) ==
    /\ reqs[r].kind = "conversation" /\ reqs[r].pc = "pending"
    /\ running = None
    /\ IF reqs[r].user = None
       THEN Respond(r, 401, None)
       ELSE LET o == GetUserByUsername(users, reqs[r].name).id IN
            /\ reqs' = [reqs EXCEPT
                  ![r].pc = "lookedUp",
                  ![r].other = o,
                  ![r].hadExisting =
                      (o # None /\ FindExisting(conversations, reqs[r].user, o).id # None),
                  ![r].concurrent =
                      \E q \in DOMAIN reqs \ {r} : reqs[q].pc # "done"]
            /\ running' = AwaitStorage(r)
    /\ UNCHANGED <<users, conversations, messages>>

\* From there to `await storage.getConversations`: the call reads the map
ConversationLookedUp(r) ==
    /\ reqs[r].kind = "conversation" /\ reqs[r].pc = "lookedUp"
    /\ MayRun(r)
    /\ IF reqs[r].other = None
       THEN Respond(r, 404, None)
       ELSE /\ reqs' = [reqs EXCEPT
                  ![r].pc = "listed",
                  ![r].found =
                      FindExisting(GetConversations(conversations, reqs[r].user),
                                   reqs[r].user, reqs[r].other).id]
            /\ running' = AwaitStorage(r)
    /\ UNCHANGED <<users, conversations, messages>>

\* From there to `await storage.getUser` (a conversation was found) or to
\* `await storage.createConversation` (the call writes the map)
ConversationListed(r) ==
    /\ reqs[r].kind = "conversation" /\ reqs[r].pc = "listed"
    /\ MayRun(r)
    /\ IF reqs[r].found # None
       THEN /\ reqs' = [reqs EXCEPT ![r].pc = "fetched"]
            /\ UNCHANGED conversations
       ELSE /\ conversations' =
                  CreateConversation(conversations, reqs[r].user, reqs[r].other)
            /\ reqs' = [reqs EXCEPT ![r].pc = "created",
                                    ![r].created = Len(conversations) + 1]
    /\ running' = AwaitStorage(r)
    /\ UNCHANGED <<users, messages>>

\* res.json(existing) / res.status(201).json(created)
ConversationRespond(r) ==
    /\ reqs[r].kind = "conversation" /\ reqs[r].pc \in {"fetched", "created"}
    /\ MayRun(r)
    /\ IF reqs[r].pc = "fetched"
       THEN Respond(r, 200, reqs[r].found)
       ELSE Respond(r, 201, reqs[r].created)
    /\ UNCHANGED <<users, conversations, messages>>

ArriveConversation ==
    /\ \E r \in Reqs, u \in UserIds \cup {None}, name \in Usernames \cup {None} :
          Arrive(r, "conversation", u, name, None, "")
    /\ UNCHANGED <<wsVars, pollVars, browserVars>>
StartConversation ==
    /\ \E r \in DOMAIN reqs : ConversationStart(r)
    /\ UNCHANGED <<wsVars, pollVars, browserVars>>
LookedUpConversation ==
    /\ \E r \in DOMAIN reqs : ConversationLookedUp(r)
    /\ UNCHANGED <<wsVars, pollVars, browserVars>>
ListedConversation ==
    /\ \E r \in DOMAIN reqs : ConversationListed(r)
    /\ UNCHANGED <<wsVars, pollVars, browserVars>>
RespondConversation ==
    /\ \E r \in DOMAIN reqs : ConversationRespond(r)
    /\ UNCHANGED <<wsVars, pollVars, browserVars>>

\* The users 1..NumUsers have registered, user u under the username u.
Registered == [u \in UserIds |-> [id |-> u, username |-> u]]

InitConversations ==
    /\ WsInit
    /\ users = Registered
    /\ conversations = << >>
    /\ messages = << >>
    /\ IdleServer
    /\ PollInit
    /\ BrowserInit

NextConversations ==
    \/ ArriveConversation
    \/ StartConversation
    \/ LookedUpConversation
    \/ ListedConversation
    \/ RespondConversation

SpecConversations == InitConversations /\ [][NextConversations]_vars

\* ------------------------------------------------ HTTP: POST /api/register
\* `await hashPassword(...)` awaits scrypt, which runs on the thread pool:
\* the handler gives up the thread and is resumed by a later callback of the
\* event loop.
AwaitScrypt(r) == None

\* From the entry of the handler to `await storage.getUserByUsername`: the
\* call reads the map
RegisterStart(r) ==
    /\ reqs[r].kind = "register" /\ reqs[r].pc = "pending"
    /\ running = None
    /\ LET existingUser == GetUserByUsername(users, reqs[r].name).id IN
       reqs' = [reqs EXCEPT
                  ![r].pc = "checked",
                  ![r].found = existingUser,
                  ![r].hadExisting = (existingUser # None),
                  ![r].concurrent =
                      \E q \in DOMAIN reqs \ {r} : reqs[q].pc # "done"]
    /\ running' = AwaitStorage(r)
    /\ UNCHANGED <<users, conversations, messages>>

\* `if (existingUser) return 400`, else to `await hashPassword`
RegisterChecked(r) ==
    /\ reqs[r].kind = "register" /\ reqs[r].pc = "checked"
    /\ MayRun(r)
    /\ IF reqs[r].found # None
       THEN Respond(r, 400, None)
       ELSE /\ reqs' = [reqs EXCEPT ![r].pc = "hashing"]
            /\ running' = AwaitScrypt(r)
    /\ UNCHANGED <<users, conversations, messages>>

\* The hash is there: to `await storage.createUser`, whose call writes the map
RegisterHashed(r) ==
    /\ reqs[r].kind = "register" /\ reqs[r].pc = "hashing"
    /\ MayRun(r)
    /\ users' = CreateUser(users, reqs[r].name)
    /\ reqs' = [reqs EXCEPT ![r].pc = "created", ![r].created = Len(users) + 1]
    /\ running' = AwaitStorage(r)
    /\ UNCHANGED <<conversations, messages>>

\* req.login(user, ...) and res.status(201).json(user)
RegisterRespond(r) ==
    /\ reqs[r].kind = "register" /\ reqs[r].pc = "created"
    /\ MayRun(r)
    /\ Respond(r, 201, reqs[r].created)
    /\ UNCHANGED <<users, conversations, messages>>

ArriveRegister ==
    /\ \E r \in Reqs, name \in Usernames : Arrive(r, "register", None, name, None, "")
    /\ UNCHANGED <<wsVars, pollVars, browserVars>>
StartRegister ==
    /\ \E r \in DOMAIN reqs : RegisterStart(r)
    /\ UNCHANGED <<wsVars, pollVars, browserVars>>
CheckedRegister ==
    /\ \E r \in DOMAIN reqs : RegisterChecked(r)
    /\ UNCHANGED <<wsVars, pollVars, browserVars>>
HashedRegister ==
    /\ \E r \in DOMAIN reqs : RegisterHashed(r)
    /\ UNCHANGED <<wsVars, pollVars, browserVars>>
RespondRegister ==
    /\ \E r \in DOMAIN reqs : RegisterRespond(r)
    /\ UNCHANGED <<wsVars, pollVars, browserVars>>

NextRegister ==
    \/ ArriveRegister
    \/ StartRegister
    \/ CheckedRegister
    \/ HashedRegister
    \/ RespondRegister

SpecRegister == Init /\ [][NextRegister]_vars

\* ------------------------------- HTTP: /api/conversations/:id/messages
\* The logged-in user of the browser, and the conversation it keeps selected
Viewer == 1
Selected == 1
\* The other participant of the selected conversation
Other == 2

\* insertMessageSchema.safeParse: parseInt(req.params.id) must be a number
\* (None stands for NaN) and content a string of at least one character
SafeParse(k, content) == k # None /\ content # ""

\* createMessage: id = this.currentMessageId++, read: false.  The timestamp
\* is the time of creation, so ids and timestamps grow together.
CreateMessage(ms, k, u, content) ==
    Append(ms, [id |-> Len(ms) + 1, conversationId |-> k, senderId |-> u,
                content |-> content, timestamp |-> Len(ms) + 1, read |-> FALSE])

\* Array.prototype.sort by timestamp, as an insertion sort (stable)
RECURSIVE SortByTimestamp(_)
SortByTimestamp(ms) ==
    IF ms = << >> THEN << >>
    ELSE LET rest == SortByTimestamp(SubSeq(ms, 1, Len(ms) - 1))
             x == ms[Len(ms)]
             Before(m) == m.timestamp <= x.timestamp
             After(m) == m.timestamp > x.timestamp
         IN SelectSeq(rest, Before) \o << x >> \o SelectSeq(rest, After)

\* getMessages: the messages of the conversation, by timestamp
GetMessages(ms, k) ==
    LET InConv(m) == m.conversationId = k IN SortByTimestamp(SelectSeq(ms, InConv))

\* A marking that does not filter by conversation
MarkEveryConversation(ms, k, u) ==
    [i \in 1..Len(ms) |->
        IF ms[i].senderId # u THEN [ms[i] EXCEPT !.read = TRUE] ELSE ms[i]]

\* markConversationMessagesAsRead
MarkConversationMessagesAsRead(ms, k, u) ==
    [i \in 1..Len(ms) |->
        IF ms[i].conversationId = k /\ ms[i].senderId # u
        THEN [ms[i] EXCEPT !.read = TRUE] ELSE ms[i]]

\* What the POST handler puts on the sockets of the registry: it has no
\* ws.send and does not touch `clients`.
MessagePush(m, msg) == << >>

\* POST: from the entry of the handler to `await storage.createMessage`,
\* whose call writes the map
MessageStart(r) ==
    /\ reqs[r].kind = "message" /\ reqs[r].pc = "pending"
    /\ running = None
    /\ last' = Event("post", None, NoData)
    /\ pre' = Snapshot
    /\ UNCHANGED <<clients, readyState, userId, everInit, lastInit, handled, escaped>>
    /\ IF reqs[r].user = None
       THEN /\ Respond(r, 401, None)
            /\ trace' = << >>
            /\ UNCHANGED messages
       ELSE IF ~SafeParse(reqs[r].conv, reqs[r].content)
       THEN /\ Respond(r, 400, None)
            /\ trace' = << >>
            /\ UNCHANGED messages
       ELSE /\ messages' = CreateMessage(messages, reqs[r].conv, reqs[r].user,
                                          reqs[r].content)
            /\ trace' = MessagePush(clients, messages'[Len(messages')])
            /\ reqs' = [reqs EXCEPT ![r].pc = "created",
                                    ![r].created = Len(messages) + 1]
            /\ running' = AwaitStorage(r)
    /\ UNCHANGED <<users, conversations>>

\* POST: res.status(201).json(message)
MessageRespond(r) ==
    /\ reqs[r].kind = "message" /\ reqs[r].pc = "created"
    /\ MayRun(r)
    /\ Respond(r, 201, reqs[r].created)
    /\ UNCHANGED <<users, conversations, messages>>

\* The GET of the messages query is served under a request id of its own
GetReq == MaxRequests + 1

\* GET: from the entry of the handler (the Viewer is authenticated) to
\* `await storage.getMessages`, whose call reads the map
GetStart ==
    /\ query.pc = "sent"
    /\ running = None
    /\ query' = [query EXCEPT !.pc = "read"]
    /\ response' = GetMessages(messages, Selected)
    /\ running' = AwaitStorage(GetReq)
    /\ UNCHANGED <<users, conversations, messages, reqs, fetched>>

\* GET: to `await storage.markConversationMessagesAsRead`, whose call
\* writes the map
GetMark ==
    /\ query.pc = "read"
    /\ MayRun(GetReq)
    /\ query' = [query EXCEPT !.pc = "marked"]
    /\ messages' = MarkConversationMessagesAsRead(messages, Selected, Viewer)
    /\ running' = AwaitStorage(GetReq)
    /\ UNCHANGED <<users, conversations, reqs, response, fetched>>

\* GET: res.json(messages).  The browser drops the response of a fetch it
\* has replaced meanwhile; the replacing request is then on its way.
GetRespond ==
    /\ query.pc = "marked"
    /\ MayRun(GetReq)
    /\ running' = None
    /\ IF query.stale
       THEN /\ query' = [pc |-> "sent", stale |-> FALSE]
            /\ response' = << >>
       ELSE /\ query' = [query EXCEPT !.pc = "responded"]
            /\ UNCHANGED response
    /\ UNCHANGED <<users, conversations, messages, reqs, fetched>>

\* ------------------------------------------------ browser: messages query
\* An invalidation that refetches nothing, as for a query nobody observes
InvalidateNoRefetch(q) == q

\* queryClient.invalidateQueries on the observed messages query: a refetch
\* is started; a fetch that is under way is abandoned for it.
Invalidate(q) ==
    CASE q.pc \in {"idle", "sent", "responded"} -> [pc |-> "sent", stale |-> FALSE]
      [] q.pc \in {"read", "marked"} -> [q EXCEPT !.stale = TRUE]

\* The setInterval callback of the polling effect, every 3000 ms
PollTick ==
    /\ query' = Invalidate(query)
    /\ response' = (IF query'.pc = "sent" THEN << >> ELSE response)
    /\ UNCHANGED fetched
    /\ UNCHANGED <<wsVars, httpVars, browserVars>>

\* The response arrives: it becomes the data of the query
Receive ==
    /\ query.pc = "responded"
    /\ fetched' = response
    /\ response' = << >>
    /\ query' = [query EXCEPT !.pc = "idle"]
    /\ UNCHANGED <<wsVars, httpVars, browserVars>>

\* The POSTs that are sent: both participants of the selected conversation
\* post a text to it, the other participant posts to every other
\* conversation too; one POST is not authenticated, one has no numeric id,
\* one has no content.
MessagePosts ==
    { [user |-> u, conv |-> Selected, content |-> "text"] : u \in {Viewer, Other} }
    \cup { [user |-> Other, conv |-> k, content |-> "text"] : k \in ConvIds \ {Selected} }
    \cup { [user |-> None, conv |-> Selected, content |-> "text"],
           [user |-> Viewer, conv |-> None, content |-> "text"],
           [user |-> Viewer, conv |-> Selected, content |-> ""] }

ArriveMessage ==
    /\ \E r \in Reqs, p \in MessagePosts :
          Arrive(r, "message", p.user, None, p.conv, p.content)
    /\ UNCHANGED <<wsVars, pollVars, browserVars>>
StartMessage ==
    /\ \E r \in DOMAIN reqs : MessageStart(r)
    /\ UNCHANGED <<pollVars, browserVars>>
RespondMessage ==
    /\ \E r \in DOMAIN reqs : MessageRespond(r)
    /\ UNCHANGED <<wsVars, pollVars, browserVars>>
StartGet == GetStart /\ UNCHANGED <<wsVars, browserVars>>
MarkGet == GetMark /\ UNCHANGED <<wsVars, browserVars>>
RespondGet == GetRespond /\ UNCHANGED <<wsVars, browserVars>>

\* The Viewer's socket is connected and registered; the users have
\* registered, users 1 and 2 have conversation 1; the Viewer's ChatArea has
\* just mounted with conversation 1 selected, so its first fetch is on its way.
ViewerOnline ==
    /\ clients = << Client(Viewer, 1) >>
    /\ readyState = [c \in Channels |-> IF c = 1 THEN "OPEN" ELSE "NONE"]
    /\ userId = [c \in Channels |-> IF c = 1 THEN Viewer ELSE None]
    /\ everInit = [c \in Channels |-> c = 1]
    /\ lastInit = [u \in UserIds |-> IF u = Viewer THEN 1 ELSE None]
    /\ handled = 1
    /\ last = Event("message", 1,
                    [raw |-> "object", type |-> "init", userId |-> Viewer,
                     conversationId |-> None, isTyping |-> FALSE])
    /\ pre = [clients |-> << >>, readyState |-> readyState,
              userId |-> [c \in Channels |-> None]]
    /\ trace = << Effect("set", 1, Viewer, NoMsg, clients) >>
    /\ escaped = FALSE

InitPolling ==
    /\ ViewerOnline
    /\ users = Registered
    /\ conversations = CreateConversation(<< >>, Viewer, Other)
    /\ messages = << >>
    /\ IdleServer
    /\ query = [pc |-> "sent", stale |-> FALSE]
    /\ response = << >>
    /\ fetched = << >>
    /\ BrowserInit

NextPolling ==
    \/ ArriveMessage
    \/ StartMessage
    \/ RespondMessage
    \/ StartGet
    \/ MarkGet
    \/ RespondGet
    \/ PollTick
    \/ Receive

\* The event loop of the server runs the callback of some request
ServePolling == StartMessage \/ RespondMessage \/ StartGet \/ MarkGet \/ RespondGet

\* The timer keeps firing and the server keeps serving the requests it has
\* received.  Serving a GET takes milliseconds and the timer fires every
\* 3000 ms, so the timer does not overtake every fetch for ever: the steps
\* of a fetch that has not been replaced are strongly fair.
FairPolling ==
    /\ WF_vars(PollTick)
    /\ WF_vars(ServePolling)
    /\ SF_vars(MarkGet /\ ~query.stale)
    /\ SF_vars(RespondGet /\ ~query.stale)
    /\ SF_vars(Receive)

SpecPolling == InitPolling /\ [][NextPolling]_vars /\ FairPolling

\* ------------------------------------------------- browser: useWebSocket
\* The hook is mounted while a user is logged in.  A socket is
\* [state, uid, sent, timer, effect]: uid is the user.id captured by the
\* connect() that created it; each sent event records who was logged in when
\* it was sent; timer is the reconnect timer set by its onclose ("none"
\* before); effect tells whether the effect instance whose connect() created
\* the socket is in place ("live"), was cleaned up later ("cleaned"), or had
\* been cleaned up already when the socket was created ("orphan").
HasFreeSock(ss) == Len(ss) < MaxSockets

FreeSock(ss) == Len(ss) + 1

\* connect(): new WebSocket(wsUrl), with handlers that capture `user`
ConnectSock(ss, uid) ==
    Append(ss, [state |-> "CONNECTING", uid |-> uid, sent |-> << >>, timer |-> "none",
                effect |-> "live"])

\* The socket connect() has just created belongs to the effect instance of
\* socket s, whose onclose called it
Inherit(ss, s) ==
    [ss EXCEPT ![Len(ss)].effect = IF ss[s].effect = "live" THEN "live" ELSE "orphan"]

\* The effect instance in place has been cleaned up
Unmounted(ss) ==
    [i \in DOMAIN ss |->
        IF ss[i].effect = "live" THEN [ss[i] EXCEPT !.effect = "cleaned"] ELSE ss[i]]

\* WebSocket.close() in the browser: the close event comes later
CloseSock(ss, s) ==
    IF ss[s].state \in {"CONNECTING", "OPEN"}
    THEN [ss EXCEPT ![s].state = "CLOSING"] ELSE ss

SentEvent(type, uid) == [type |-> type, userId |-> uid, loggedIn |-> user]

\* clearTimeout(reconnectTimeoutRef.current), if set
ClearTimer(ss) ==
    IF timeoutRef # None /\ ss[timeoutRef].timer = "pending"
    THEN [ss EXCEPT ![timeoutRef].timer = "cleared"] ELSE ss

\* The cleanup of the effect: close wsRef.current if set, then clear the
\* timer reconnectTimeoutRef.current holds if set
Cleanup(ss) == Unmounted(ClearTimer(IF wsRef # None THEN CloseSock(ss, wsRef) ELSE ss))

\* `user` changes (login, logout, another login): React runs the cleanup of
\* the previous effect, if `user` was set, then the effect again, which
\* connects if `user` is set.
SetUser(u) ==
    /\ u # user
    /\ u # None => HasFreeSock(socks)
    /\ user' = u
    /\ LET ss == IF user # None THEN Cleanup(socks) ELSE socks IN
       /\ socks' = (IF u # None THEN ConnectSock(ss, u) ELSE ss)
       /\ wsRef' = (IF u # None THEN FreeSock(ss) ELSE wsRef)
    /\ UNCHANGED <<timeoutRef, tabs>>

\* ws.onopen: the socket is open, init is sent with the captured user.id
SockOpen(s) ==
    /\ socks[s].state = "CONNECTING"
    /\ socks' = [socks EXCEPT ![s].state = "OPEN",
                              ![s].sent = Append(@, SentEvent("init", socks[s].uid))]
    /\ UNCHANGED <<user, wsRef, timeoutRef, tabs>>

\* ws.onclose, whoever closed the socket: wsRef.current = null and the
\* reconnect timer is set
SockClosed(s) ==
    /\ socks[s].state \in {"CONNECTING", "OPEN", "CLOSING"}
    /\ socks' = [socks EXCEPT ![s].state = "CLOSED", ![s].timer = "pending"]
    /\ wsRef' = None
    /\ timeoutRef' = s
    /\ UNCHANGED <<user, tabs>>

\* The reconnect timer set by the onclose of socket s fires: connect() of
\* the same closure
TimerFire(s) ==
    /\ socks[s].timer = "pending"
    /\ HasFreeSock(socks)
    /\ socks' = Inherit(ConnectSock([socks EXCEPT ![s].timer = "fired"], socks[s].uid), s)
    /\ wsRef' = FreeSock(socks)
    /\ UNCHANGED <<user, timeoutRef, tabs>>

\* sendTypingStatus, called from ChatArea: sends only over an open wsRef.current
SendTypingStatus ==
    /\ user # None
    /\ wsRef # None
    /\ socks[wsRef].state = "OPEN"
    /\ Len(socks[wsRef].sent) < MaxSent
    /\ socks' = [socks EXCEPT ![wsRef].sent = Append(@, SentEvent("typing", None))]
    /\ UNCHANGED <<user, wsRef, timeoutRef, tabs>>

ChangeUser ==
    /\ \E u \in UserIds \cup {None} : SetUser(u)
    /\ UNCHANGED <<wsVars, httpVars, pollVars>>
Open ==
    /\ \E s \in DOMAIN socks : SockOpen(s)
    /\ UNCHANGED <<wsVars, httpVars, pollVars>>
Closed ==
    /\ \E s \in DOMAIN socks : SockClosed(s)
    /\ UNCHANGED <<wsVars, httpVars, pollVars>>
Reconnect ==
    /\ \E s \in DOMAIN socks : TimerFire(s)
    /\ UNCHANGED <<wsVars, httpVars, pollVars>>
Typing ==
    /\ SendTypingStatus
    /\ UNCHANGED <<wsVars, httpVars, pollVars>>

NextClient == ChangeUser \/ Open \/ Closed \/ Reconnect \/ Typing

SpecClient == Init /\ [][NextClient]_vars

\* ------------------------ HTTP: GET /api/conversations/:id/messages
\* The ids a request can carry as :id: the conversations and one id under
\* which no conversation is stored (neither handler looks the id up)
ParamIds == 1..(NumConvs + 1)

\* GET by any client: from the entry of the handler to
\* `await storage.getMessages`, whose call reads the map
MessagesStart(r) ==
    /\ reqs[r].kind = "get" /\ reqs[r].pc = "pending"
    /\ running = None
    /\ IF reqs[r].user = None
       THEN Respond(r, 401, None)
       ELSE /\ reqs' = [reqs EXCEPT ![r].pc = "read",
                                    ![r].result = GetMessages(messages, reqs[r].conv)]
            /\ running' = AwaitStorage(r)
    /\ UNCHANGED <<users, conversations, messages>>

\* GET: to `await storage.markConversationMessagesAsRead`, whose call
\* writes the map
MessagesMark(r) ==
    /\ reqs[r].kind = "get" /\ reqs[r].pc = "read"
    /\ MayRun(r)
    /\ messages' = MarkConversationMessagesAsRead(messages, reqs[r].conv, reqs[r].user)
    /\ reqs' = [reqs EXCEPT ![r].pc = "marked"]
    /\ running' = AwaitStorage(r)
    /\ UNCHANGED <<users, conversations>>

\* GET: res.json(messages), the list read before the marking
MessagesRespond(r) ==
    /\ reqs[r].kind = "get" /\ reqs[r].pc = "marked"
    /\ MayRun(r)
    /\ Respond(r, 200, reqs[r].result)
    /\ UNCHANGED <<users, conversations, messages>>

ArriveMessages ==
    /\ \E r \in Reqs, u \in UserIds \cup {None}, k \in ParamIds :
          Arrive(r, "get", u, None, k, "")
    /\ UNCHANGED <<wsVars, pollVars, browserVars>>
StartMessages ==
    /\ \E r \in DOMAIN reqs : MessagesStart(r)
    /\ UNCHANGED <<wsVars, pollVars, browserVars>>
MarkMessages ==
    /\ \E r \in DOMAIN reqs : MessagesMark(r)
    /\ UNCHANGED <<wsVars, pollVars, browserVars>>
RespondMessages ==
    /\ \E r \in DOMAIN reqs : MessagesRespond(r)
    /\ UNCHANGED <<wsVars, pollVars, browserVars>>

\* The store after every user has posted one text under every id: the
\* messages createMessage builds for these POSTs, none of them read
EveryonePosted ==
    [i \in 1..(NumUsers * (NumConvs + 1)) |->
        [id |-> i, conversationId |-> ((i - 1) \div NumUsers) + 1,
         senderId |-> ((i - 1) % NumUsers) + 1,
         content |-> "text", timestamp |-> i, read |-> FALSE]]

InitReceipts ==
    /\ WsInit
    /\ users = Registered
    /\ conversations = << >>
    /\ messages = EveryonePosted
    /\ IdleServer
    /\ PollInit
    /\ BrowserInit

NextReceipts ==
    \/ ArriveMessage
    \/ StartMessage
    \/ RespondMessage
    \/ ArriveMessages
    \/ StartMessages
    \/ MarkMessages
    \/ RespondMessages

SpecReceipts == InitReceipts /\ [][NextReceipts]_vars

\* -------------------------------- several tabs of one user and the server
\* The init event a tab of the Viewer sends
ViewerInit ==
    [raw |-> "object", type |-> "init", userId |-> Viewer,
     conversationId |-> None, isTyping |-> FALSE]

\* The hook of tab c runs with the Viewer logged in: connect() creates the
\* tab's first socket
TabMount(c) ==
    /\ c = Len(tabs) + 1
    /\ tabs' = Append(tabs, NewTab)
    /\ UNCHANGED wsVars

\* wss.on('connection') for the socket tab c has just created, the first
\* one or the one of a reconnect: a new closure, userId undefined, one ping
TabAccept(c) ==
    /\ c \in DOMAIN tabs
    /\ tabs[c].state = "CONNECTING"
    /\ readyState[c] \in {"NONE", "CLOSED"}
    /\ readyState' = [readyState EXCEPT ![c] = "OPEN"]
    /\ userId' = [userId EXCEPT ![c] = None]
    /\ everInit' = [everInit EXCEPT ![c] = FALSE]
    /\ trace' = Greeting(c, clients)
    /\ last' = Event("connection", c, NoData)
    /\ pre' = Snapshot
    /\ UNCHANGED <<clients, lastInit, handled, escaped, tabs>>

\* ws.onopen of tab c: init with the Viewer's id is sent
TabOpen(c) ==
    /\ c \in DOMAIN tabs
    /\ tabs[c].state = "CONNECTING"
    /\ readyState[c] = "OPEN"
    /\ tabs' = [tabs EXCEPT ![c].state = "OPEN", ![c].init = TRUE]
    /\ UNCHANGED wsVars

\* ws.on('message') for the init of tab c
TabInit(c) ==
    /\ c \in DOMAIN tabs
    /\ tabs[c].init
    /\ readyState[c] \in {"OPEN", "CLOSING"}
    /\ last' = Event("message", c, ViewerInit)
    /\ pre' = Snapshot
    /\ HandleInit(c, ViewerInit)
    /\ tabs' = [tabs EXCEPT ![c].init = FALSE]
    /\ UNCHANGED <<handled, escaped>>

\* ws.on('close') for the socket of tab c, which the server closed: the
\* tabs themselves close nothing
TabServerClose(c) ==
    /\ c \in DOMAIN tabs
    /\ readyState[c] = "CLOSING"
    /\ OnClose(c)
    /\ tabs' = [tabs EXCEPT ![c].typing = NoData]

\* sendTypingStatus in tab c: sent only over an open socket; the tab sends
\* its next typing event when the last one has arrived
TabType(c, data) ==
    /\ c \in DOMAIN tabs
    /\ tabs[c].state = "OPEN"
    /\ tabs[c].typing = NoData
    /\ tabs' = [tabs EXCEPT ![c].typing = data]
    /\ UNCHANGED wsVars

\* ws.on('message') for the typing event of tab c
TabTyping(c) ==
    /\ c \in DOMAIN tabs
    /\ tabs[c].typing # NoData
    /\ ~tabs[c].init
    /\ readyState[c] \in {"OPEN", "CLOSING"}
    /\ last' = Event("message", c, tabs[c].typing)
    /\ pre' = Snapshot
    /\ HandleTyping(c, tabs[c].typing)
    /\ tabs' = [tabs EXCEPT ![c].typing = NoData]
    /\ UNCHANGED <<handled, escaped>>

\* ws.onclose of tab c, once the server has called close(): the reconnect
\* timer is set
TabClosed(c) ==
    /\ c \in DOMAIN tabs
    /\ tabs[c].state = "OPEN"
    /\ readyState[c] \in {"CLOSING", "CLOSED"}
    /\ tabs' = [tabs EXCEPT ![c].state = "CLOSED", ![c].timer = TRUE]
    /\ UNCHANGED wsVars

\* A reconnect timer that is cancelled instead of firing
TabTimerCancelled(t) == [t EXCEPT !.timer = FALSE]

\* The reconnect timer of a tab fires: connect() creates its next socket
TabTimerFired(t) == [t EXCEPT !.state = "CONNECTING", !.timer = FALSE]

\* The reconnect timer of tab c fires, 3000 ms after onclose: the server
\* has handled the close event of the old socket long before
TabTimer(c) ==
    /\ c \in DOMAIN tabs
    /\ tabs[c].timer
    /\ readyState[c] = "CLOSED"
    /\ tabs' = [tabs EXCEPT ![c] = TabTimerFired(tabs[c])]
    /\ UNCHANGED wsVars

\* What a step of a tab or of its channel leaves alone
Elsewhere == UNCHANGED <<httpVars, pollVars, user, socks, wsRef, timeoutRef>>

Mount == \E c \in Channels : TabMount(c) /\ Elsewhere
Accept == \E c \in Channels : TabAccept(c) /\ Elsewhere
Opened == \E c \in Channels : TabOpen(c) /\ Elsewhere
ServeInit == \E c \in Channels : TabInit(c) /\ Elsewhere
ServeClose == \E c \in Channels : TabServerClose(c) /\ Elsewhere
Dropped == \E c \in Channels : TabClosed(c) /\ Elsewhere
Redial == \E c \in Channels : TabTimer(c) /\ Elsewhere
Type ==
    \E c \in Channels, data \in TypingPayloads :
        data.conversationId # None /\ data.isTyping /\ TabType(c, data) /\ Elsewhere
ServeTyping == \E c \in Channels : TabTyping(c) /\ Elsewhere

NextSessions ==
    \/ Mount \/ Accept \/ Opened \/ ServeInit \/ ServeClose \/ Dropped \/ Redial
    \/ Type \/ ServeTyping

\* Every tab is opened; the event loops of the server and of the tabs run
\* every callback that is ready; timers fire; what is sent arrives.
FairSessions ==
    \A c \in Channels :
        /\ WF_vars(TabMount(c) /\ Elsewhere)
        /\ WF_vars(TabAccept(c) /\ Elsewhere)
        /\ WF_vars(TabOpen(c) /\ Elsewhere)
        /\ WF_vars(TabInit(c) /\ Elsewhere)
        /\ WF_vars(TabServerClose(c) /\ Elsewhere)
        /\ WF_vars(TabClosed(c) /\ Elsewhere)
        /\ WF_vars(TabTimer(c) /\ Elsewhere)
        /\ WF_vars(TabTyping(c) /\ Elsewhere)

SpecSessions == Init /\ [][NextSessions]_vars /\ FairSessions

\* ----------------------------------------------------------- vocabulary
TypeOK ==
    /\ readyState \in [Channels -> {"NONE", "OPEN", "CLOSING", "CLOSED"}]
    /\ userId \in [Channels -> UserIds \cup {None}]
    /\ everInit \in [Channels -> BOOLEAN]
    /\ lastInit \in [UserIds -> Channels \cup {None}]
    /\ handled \in 0..MaxMessages
    /\ last.data \in Payloads \cup {NoData}
    /\ escaped \in BOOLEAN

\* ------------------------------------------------- vocabulary of the claims
\* The last handler handled a parsed message of type t
IsMessage(t) ==
    last.ev = "message" /\ last.data.raw = "object" /\ last.data.type = t

EntriesOf(m, u) == { i \in DOMAIN m : m[i].key = u }

BoundTo(m, u, c) == \E i \in DOMAIN m : m[i].key = u /\ m[i].ws = c

BoundChannels(m) == { m[i].ws : i \in DOMAIN m }

Unbound(m, c) == \A i \in DOMAIN m : m[i].ws # c

KeysUnique(m) == \A i, j \in DOMAIN m : m[i].key = m[j].key => i = j

\* What the last handler did, by kind
SendsOn(c) ==
    LET Is(e) == e.op = "send" /\ e.ws = c IN SelectSeq(trace, Is)

Sends ==
    LET Is(e) == e.op = "send" IN SelectSeq(trace, Is)

ClosesOf(c) ==
    LET Is(e) == e.op = "close" /\ e.ws = c IN SelectSeq(trace, Is)

\* ---------------------------------------------------------------- claims

\* C1: when userId u is registered on channel c1 and another channel c2
\* sends init with u, then right after that init the registry holds exactly
\* one entry for u, it is bound to c2, and close was invoked on c1 exactly
\* once (c1 is no longer open).
RegisterEvictsPrior ==
    \A u \in UserIds, c1 \in Channels, c2 \in Channels :
        ( /\ c1 # c2
          /\ BoundTo(pre.clients, u, c1)
          /\ IsMessage("init") /\ last.ch = c2 /\ last.data.userId = u )
        => /\ Cardinality(EntriesOf(clients, u)) = 1
           /\ BoundTo(clients, u, c2)
           /\ Len(ClosesOf(c1)) = 1
           /\ readyState[c1] # "OPEN"

RegisterEvictsPriorReached ==
    \E u \in UserIds, c1 \in Channels, c2 \in Channels :
        /\ c1 # c2
        /\ BoundTo(pre.clients, u, c1)
        /\ pre.readyState[c1] = "OPEN"
        /\ IsMessage("init") /\ last.ch = c2 /\ last.data.userId = u

\* C2: a channel c whose init for u is the latest init for u, and whose
\* close event has not occurred, holds the registry entry of u.
LatestInitHoldsEntry ==
    \A u \in UserIds, c \in Channels :
        (lastInit[u] = c /\ readyState[c] \in {"OPEN", "CLOSING"})
        => BoundTo(clients, u, c)

\* C3: once the close event of a channel has been handled, no registry
\* entry is bound to the channel and nothing is sent over it.
ClosedChannelUnbound ==
    \A c \in Channels :
        readyState[c] = "CLOSED"
        => c \notin BoundChannels(clients) /\ SendsOn(c) = << >>

\* C4: a typing event (k, v) handled for sender a is sent exactly to the
\* channels of the registered users b # a whose conversationId is k, once
\* per such user, each message carrying userId a and isTyping v; the
\* handler does nothing else but update the sender's entry, and no
\* exception leaves it.
TypingRelayedToViewers ==
    (IsMessage("typing") /\ pre.userId[last.ch] # None)
    => LET a == pre.userId[last.ch]
           k == last.data.conversationId
           v == last.data.isTyping
           viewers == { i \in DOMAIN pre.clients :
                          /\ pre.clients[i].userId # a
                          /\ pre.clients[i].conversationId = k }
       IN /\ { Sends[i].ws : i \in DOMAIN Sends }
               = { pre.clients[i].ws : i \in viewers }
          /\ { Sends[i].key : i \in DOMAIN Sends }
               = { pre.clients[i].key : i \in viewers }
          /\ Len(Sends) = Cardinality(viewers)
          /\ \A i \in DOMAIN Sends : Sends[i].msg = TypingMsg(a, v)
          /\ \A i \in DOMAIN trace : trace[i].op \in {"assign", "send"}
          /\ ~escaped

TypingRelayedToViewersReached ==
    /\ IsMessage("typing")
    /\ pre.userId[last.ch] # None
    /\ last.data.conversationId \in ConvIds
    /\ Len(Sends) >= 1
    /\ \A i \in DOMAIN Sends : Sends[i].ws # last.ch
    /\ BoundTo(clients, pre.userId[last.ch], last.ch)

\* C5: one typing event for a conversation puts at most one typing message
\* on any channel and none on the channel of the sender.
AtMostOncePerRecipient ==
    (IsMessage("typing") /\ pre.userId[last.ch] # None
        /\ last.data.conversationId \in ConvIds)
    => /\ \A d \in Channels : Len(SendsOn(d)) <= 1
       /\ SendsOn(last.ch) = << >>

\* C6: every registry entry is bound to a channel that was opened by the
\* client authenticated as the entry's userId.
EntryOwnedBySession ==
    \A i \in DOMAIN clients : SessionUser(clients[i].ws) = clients[i].userId

\* C7: a payload that does not parse, or whose type is neither init nor
\* typing, leaves the registry, every captured userId and every channel's
\* state as they were, sends nothing, and no exception leaves the handler.
MalformedIgnored ==
    (last.ev = "message" /\ last.data \in MalformedPayloads)
    => /\ clients = pre.clients
       /\ userId = pre.userId
       /\ readyState = pre.readyState
       /\ trace = << >>
       /\ ~escaped

MalformedIgnoredReached ==
    /\ last.ev = "message"
    /\ last.data \in MalformedPayloads
    /\ ParseThrows(last.data)
    /\ userId[last.ch] # None
    /\ BoundTo(clients, userId[last.ch], last.ch)
    /\ readyState[last.ch] = "OPEN"

\* C8: a typing event on a channel that has sent no init changes no
\* registry entry, sends nothing, and no exception leaves the handler.
TypingBeforeInitIgnored ==
    (IsMessage("typing") /\ ~everInit[last.ch])
    => /\ clients = pre.clients
       /\ trace = << >>
       /\ ~escaped

TypingBeforeInitIgnoredReached ==
    /\ IsMessage("typing")
    /\ ~everInit[last.ch]
    /\ \E i \in DOMAIN clients :
          clients[i].conversationId = last.data.conversationId

\* C9: the close event of a channel that has sent no init leaves the
\* registry as it was.
CloseWithoutInitKeepsRegistry ==
    (last.ev = "close" /\ ~everInit[last.ch])
    => clients = pre.clients /\ trace = << >>

CloseWithoutInitKeepsRegistryReached ==
    /\ last.ev = "close"
    /\ ~everInit[last.ch]
    /\ clients # << >>

\* C10: the registry never holds two entries for one userId, neither
\* between handlers nor after any single effect inside a handler; an init
\* for a userId that has an entry first closes the prior entry's channel,
\* then deletes the prior entry, then inserts the new one, in one turn.
EvictBeforeInsert ==
    /\ KeysUnique(clients)
    /\ \A i \in DOMAIN trace : KeysUnique(trace[i].reg)
    /\ (IsMessage("init") /\ last.data.userId # None
            /\ MapHas(pre.clients, last.data.userId))
       => LET u == last.data.userId IN
          /\ Len(trace) = 3
          /\ trace[1].op = "close"
          /\ trace[1].ws = MapGet(pre.clients, u).ws
          /\ trace[1].reg = pre.clients
          /\ trace[2].op = "delete"
          /\ EntriesOf(trace[2].reg, u) = {}
          /\ trace[3].op = "set"
          /\ Cardinality(EntriesOf(trace[3].reg, u)) = 1
          /\ BoundTo(trace[3].reg, u, last.ch)
          /\ trace[3].reg = clients

EvictBeforeInsertReached ==
    /\ IsMessage("init")
    /\ last.data.userId # None
    /\ MapHas(pre.clients, last.data.userId)
    /\ MapGet(pre.clients, last.data.userId).ws # last.ch
    /\ Len(clients) = 2

\* C11: right after an init for userId u, the entry of u has no
\* conversationId, whatever the entry it replaced had.
InitClearsConversation ==
    (IsMessage("init") /\ last.data.userId # None)
    => /\ MapHas(clients, last.data.userId)
       /\ MapGet(clients, last.data.userId).conversationId = None

InitClearsConversationReached ==
    /\ IsMessage("init")
    /\ last.data.userId # None
    /\ MapHas(pre.clients, last.data.userId)
    /\ MapGet(pre.clients, last.data.userId).conversationId # None

\* C12: a typing event for conversation k on a channel whose captured
\* userId u has an entry sets the conversationId of that entry to k and
\* changes nothing else: same keys in the same order, same channel in every
\* entry, same conversationId in every other entry.
TypingUpdatesOnlySender ==
    ( /\ IsMessage("typing")
      /\ pre.userId[last.ch] # None
      /\ MapHas(pre.clients, pre.userId[last.ch]) )
    => LET u == pre.userId[last.ch]
           k == last.data.conversationId
       IN /\ Len(clients) = Len(pre.clients)
          /\ \A i \in DOMAIN clients :
                /\ clients[i].key = pre.clients[i].key
                /\ clients[i].userId = pre.clients[i].userId
                /\ clients[i].ws = pre.clients[i].ws
                /\ clients[i].conversationId =
                      IF clients[i].key = u THEN k
                                            ELSE pre.clients[i].conversationId

TypingUpdatesOnlySenderReached ==
    /\ IsMessage("typing")
    /\ pre.userId[last.ch] # None
    /\ MapHas(pre.clients, pre.userId[last.ch])
    /\ MapGet(pre.clients, pre.userId[last.ch]).conversationId
          # last.data.conversationId
    /\ \E i \in DOMAIN clients :
          /\ clients[i].key # pre.userId[last.ch]
          /\ clients[i].conversationId # last.data.conversationId

\* C13: a channel that has sent no init is bound to no registry entry, at
\* no point of any handler, and the only thing ever sent over it is the ping
\* of its own connection.
NeverInitNeverBound ==
    \A c \in Channels :
        ~everInit[c]
        => /\ Unbound(clients, c)
           /\ \A i \in DOMAIN trace :
                 /\ Unbound(trace[i].reg, c)
                 /\ (trace[i].op = "send" /\ trace[i].ws = c)
                    => /\ trace[i].msg = PingMsg
                       /\ last.ev = "connection"
                       /\ last.ch = c

NeverInitNeverBoundReached ==
    /\ IsMessage("typing")
    /\ Len(Sends) >= 1
    /\ \E c \in Channels : ~everInit[c] /\ readyState[c] = "OPEN"

\* C14: the connection handler sends exactly one ping, on the new socket,
\* and nothing else; no other handler sends a ping.
PingOnlyAtConnection ==
    /\ last.ev = "connection"
       => /\ Len(Sends) = 1
          /\ Sends[1].ws = last.ch
          /\ Sends[1].msg = PingMsg
    /\ last.ev # "connection"
       => \A i \in DOMAIN Sends : Sends[i].msg.type # "ping"

PingOnlyAtConnectionReached ==
    /\ last.ev = "message"
    /\ handled >= 3
    /\ readyState[last.ch] = "OPEN"
    /\ Len(Sends) >= 1

\* C16: right after the close handler of a channel whose captured userId is
\* u, the registry has no entry for u; when it had none before, the
\* registry is as it was.
CloseUnregisters ==
    (last.ev = "close" /\ pre.userId[last.ch] # None)
    => LET u == pre.userId[last.ch] IN
       /\ EntriesOf(clients, u) = {}
       /\ EntriesOf(pre.clients, u) = {} => clients = pre.clients

CloseUnregistersReached ==
    /\ last.ev = "close"
    /\ pre.userId[last.ch] # None
    /\ EntriesOf(pre.clients, pre.userId[last.ch]) = {}
    /\ clients # << >>


\* u is a participant of conversation k in the stored conversation records
ParticipantOf(cs, k, u) ==
    \E j \in DOMAIN cs : cs[j].id = k /\ u \in {cs[j].user1Id, cs[j].user2Id}

OnePerPair(cs) ==
    \A i, j \in DOMAIN cs :
        SamePair(cs[i], cs[j].user1Id, cs[j].user2Id) => i = j

\* C19: at most one conversation is stored per unordered pair of users; a
\* POST /api/conversations for a pair that had a conversation when its
\* handler was entered answers 200 with that conversation and creates
\* nothing, however many such requests are pending at once.
OneConversationPerPair ==
    /\ OnePerPair(conversations)
    /\ \A r \in DOMAIN reqs :
          (reqs[r].kind = "conversation" /\ reqs[r].pc = "done" /\ reqs[r].hadExisting)
          => /\ reqs[r].status = 200
             /\ reqs[r].created = None
             /\ \E i \in DOMAIN conversations :
                   /\ conversations[i].id = reqs[r].result
                   /\ SamePair(conversations[i], reqs[r].user, reqs[r].other)

\* Two requests for the same pair were pending together; the first created
\* the conversation and the second answered with it.
OneConversationPerPairReached ==
    \E r1, r2 \in DOMAIN reqs :
        /\ r1 # r2
        /\ reqs[r1].pc = "done" /\ reqs[r2].pc = "done"
        /\ reqs[r1].concurrent
        /\ reqs[r1].status = 201
        /\ reqs[r2].status = 200
        /\ reqs[r2].result = reqs[r1].created
        /\ reqs[r1].user = reqs[r2].other
        /\ reqs[r1].other = reqs[r2].user
        /\ reqs[r1].user # reqs[r1].other

\* C20: no two stored users share a username; a POST /api/register for a
\* username that was taken when its handler was entered answers 400 and
\* creates no user, however many registrations are pending at once.
UsernamesUnique ==
    /\ \A i, j \in DOMAIN users : users[i].username = users[j].username => i = j
    /\ \A r \in DOMAIN reqs :
          (reqs[r].kind = "register" /\ reqs[r].pc = "done" /\ reqs[r].hadExisting)
          => reqs[r].status = 400 /\ reqs[r].created = None

\* Message id is stored in the selected conversation
StoredInSelected(id) ==
    \E i \in DOMAIN messages :
        messages[i].id = id /\ messages[i].conversationId = Selected

Fetched(id) == \E i \in DOMAIN fetched : fetched[i].id = id

\* C18: nothing but ping and typing is ever sent over a socket, and every
\* message created in the selected conversation is eventually part of the
\* data the polling browser got from GET.
PolledNotPushed ==
    /\ [](\A i \in DOMAIN Sends : Sends[i].msg.type \in {"ping", "typing"})
    /\ \A id \in 1..MaxRequests : StoredInSelected(id) ~> Fetched(id)

\* A message another user created after the first fetch has come in by polling
PolledNotPushedReached ==
    /\ \E i \in DOMAIN fetched :
          /\ fetched[i].senderId # Viewer
          /\ \E r \in DOMAIN reqs :
                reqs[r].created = fetched[i].id /\ reqs[r].status = 201
    /\ \E i \in DOMAIN clients : clients[i].userId = Viewer
    /\ Sends = << >>

\* C17: on every socket the hook creates, the first event sent is init and
\* it carries the id of the user who is logged in when it is sent; every
\* typing event of the socket comes after it.
InitFirstOnEverySocket ==
    \A s \in DOMAIN socks :
        LET sent == socks[s].sent IN
        /\ Len(sent) >= 1 => /\ sent[1].type = "init"
                             /\ sent[1].userId = sent[1].loggedIn
        /\ \A i \in 2..Len(sent) : sent[i].type = "typing"

\* C27: no socket is created by the connect() of an effect instance whose
\* cleanup has run, so no init is sent for such an instance.
NoReconnectAfterCleanup ==
    \A s \in DOMAIN socks : socks[s].effect # "orphan"

\* The registry holds one entry, of the Viewer, bound to the open socket of
\* a tab that is open, and no tab is connecting, closing or reconnecting
Settled ==
    /\ Len(clients) = 1
    /\ clients[1].userId = Viewer
    /\ readyState[clients[1].ws] = "OPEN"
    /\ \A c \in Channels :
          /\ c \in DOMAIN tabs
          /\ tabs[c].state = "OPEN" /\ ~tabs[c].init /\ ~tabs[c].timer
          /\ readyState[c] = "OPEN"

\* C26: with two tabs of the same user open, each reconnecting 3 s after its
\* socket closes and sending init on open, the registry entry of the user
\* stops changing from some point on: one tab holds it and no further
\* eviction occurs.
SessionsSettle == <>[]Settled

\* Settled with both kinds of tab: one holds the entry, its init being the
\* last one handled, and another one, whose init was handled too, is open
\* and holds nothing
SessionsSettleReached ==
    /\ Settled
    /\ \E c, d \in Channels :
          /\ c # d
          /\ BoundTo(clients, Viewer, c) /\ lastInit[Viewer] = c
          /\ everInit[d] /\ userId[d] = Viewer /\ Unbound(clients, d)

\* Request r is a GET that takes the step that marks, or the step that answers
Marks(r) == reqs[r].kind = "get" /\ reqs[r].pc = "read" /\ reqs'[r].pc = "marked"
Completes(r) == reqs[r].kind = "get" /\ reqs[r].pc = "marked" /\ reqs'[r].pc = "done"

\* Message m is one that a GET of request r is to mark
ToMark(r, m) == m.conversationId = reqs[r].conv /\ m.senderId # reqs[r].user

\* C21: when the GET of conversation k by user u completes, every stored
\* message of k not sent by u is read; a read flag changes only in the
\* marking step of a GET, and only for the messages of its conversation not
\* sent by its user; no step takes a read flag from true to false or
\* removes a message.
ReadReceiptStep ==
    /\ \A r \in DOMAIN reqs :
          Completes(r) => \A i \in DOMAIN messages' :
                             ToMark(r, messages'[i]) => messages'[i].read
    /\ Len(messages') >= Len(messages)
    /\ \A i \in DOMAIN messages :
          /\ messages[i].read => messages'[i].read
          /\ messages'[i].read # messages[i].read
             => \E r \in DOMAIN reqs : Marks(r) /\ ToMark(r, messages[i])
          /\ \A r \in DOMAIN reqs :
                (Marks(r) /\ ToMark(r, messages[i])) => messages'[i].read

ReadReceipts == [][ReadReceiptStep]_vars

\* A completed GET of a conversation that holds a message of another
\* sender, now read, and an unread message of the reader, while an unread
\* message of another sender sits in another conversation
ReadReceiptsReached ==
    \E r \in DOMAIN reqs :
        /\ reqs[r].kind = "get" /\ reqs[r].pc = "done" /\ reqs[r].status = 200
        /\ \E i, j, l \in DOMAIN messages :
              /\ messages[i].conversationId = reqs[r].conv
              /\ messages[i].senderId # reqs[r].user
              /\ messages[i].read
              /\ messages[j].conversationId = reqs[r].conv
              /\ messages[j].senderId = reqs[r].user
              /\ ~messages[j].read
              /\ messages[l].conversationId # reqs[r].conv
              /\ messages[l].senderId # reqs[r].user
              /\ ~messages[l].read

\* C22: a typing event handled on a channel c1 that a newer init of the same
\* userId from another channel c2 has evicted (close was called on c1, its
\* close event is still to come) leaves the registry, and with it the
\* conversationId of c2's entry, as it was and sends nothing.
EvictedTypingIgnored ==
    (/\ IsMessage("typing")
     /\ pre.readyState[last.ch] = "CLOSING"
     /\ pre.userId[last.ch] # None
     /\ \E c2 \in Channels \ {last.ch} :
           /\ BoundTo(pre.clients, pre.userId[last.ch], c2)
           /\ lastInit[pre.userId[last.ch]] = c2)
    => /\ clients = pre.clients
       /\ Sends = << >>

\* C23: no two registry entries are bound to the same channel.
OneEntryPerChannel ==
    \A i, j \in DOMAIN clients : clients[i].ws = clients[j].ws => i = j

\* C24: the handler of an init event never calls close on the channel the
\* event came from.
InitNeverClosesSender ==
    IsMessage("init") => ClosesOf(last.ch) = << >>

\* The sends of the last handler that went out over an open socket
Delivered ==
    LET Is(e) == e.op = "send" /\ pre.readyState[e.ws] = "OPEN" IN SelectSeq(trace, Is)

\* C25: a typing event handled on a channel whose captured userId has no
\* registry entry changes no entry and delivers no typing message.
UnregisteredTypingIgnored ==
    (/\ IsMessage("typing")
     /\ pre.userId[last.ch] # None
     /\ EntriesOf(pre.clients, pre.userId[last.ch]) = {})
    => /\ clients = pre.clients
       /\ Delivered = << >>

====
